---- MODULE Spec2Model ----
(***************************************************************************)
(* Model of dms_full_load_task_template.py: the provisioning run of main() *)
(* (argument validation, JSON payload parsing, optional replication        *)
(* instance creation with its availability poll loop, replication task     *)
(* creation with the readiness waiter, task start, event subscription).    *)
(* The remote service is the environment: each remote call succeeds or     *)
(* raises, each status poll returns whatever the service reports.          *)
(***************************************************************************)
EXTENDS Integers, Sequences, FiniteSets, TLC

VARIABLES
    args,            \* the argparse namespace (immutable once parsed)
    pc,              \* position of main()
    now,             \* time.time(), in seconds since the run began
    today,           \* datetime.now() as a calendar date [y, m, d]
    rollovers,       \* number of midnights passed during the run
    task_identifier, \* main's local task_identifier (line 276)
    instance_arn,    \* main's local instance_arn (lines 289, 306)
    task_arn,        \* ReplicationTaskArn of create_replication_task's response
    start_time,      \* wait_for_instance_available's local start_time
    timeout,         \* wait_for_instance_available's parameter timeout
    polls,           \* describe_replication_instances calls of the wait
    sleeps,          \* time.sleep(30) calls of the wait
    lastStatus,      \* what the latest status poll returned
    firstAvail,      \* index of the first poll that returned available (0: none)
    sawEmpty,        \* some poll returned an empty ReplicationInstances list
    waitRet,         \* return value of wait_for_instance_available
    wait_arn,        \* create_replication_instance's local instance_arn
    calls,           \* the remote requests issued so far, in order
    error,           \* the exception that ended the run
    exitCode         \* the process's exit status (-1 while running)

vars == <<args, pc, now, today, rollovers, task_identifier, instance_arn,
          task_arn, start_time, timeout, polls, sleeps, lastStatus,
          firstAvail, sawEmpty, waitRet, wait_arn, calls, error, exitCode>>

(***************************************************************************)
(* Bounds of the model.                                                    *)
(***************************************************************************)
\* extra seconds a sleep may take beyond its nominal time
MaxJitter == 1
\* seconds the create_replication_instance request takes to return
CreateLatency == 1
\* midnights that may pass while the run executes
MaxRollover == 1
\* polls explored in one wait (more than any timeout considered allows)
MaxPolls == 32
\* largest timeout a direct call of the wait is given, in half intervals
MaxTimeoutHalves == 8

(***************************************************************************)
(* Program constants.                                                      *)
(***************************************************************************)
\* time.sleep(30)
SleepInterval == 30
\* timeout: int = 900
DefaultTimeout == 900

\* Python's None
None == "None"

(***************************************************************************)
(* Command-line values.  Strings are kept as written; a JSON document is   *)
(* well formed exactly when json.loads has a value for it.                 *)
(***************************************************************************)
SuppliedInstanceArn == "arn:aws:dms:rep:supplied"
CreatedInstanceArn  == "arn:aws:dms:rep:created"
CreatedTaskArn      == "arn:aws:dms:task:created"

JsonValue ==
    [ d \in {"{\"rules\":[]}", "{\"Logging\":{}}", "[{\"Key\":\"k\"}]",
             "[\"sg-1\"]", "[]"} |->
        CASE d = "{\"rules\":[]}"      -> [type |-> "dict", empty |-> FALSE]
          [] d = "{\"Logging\":{}}"    -> [type |-> "dict", empty |-> FALSE]
          [] d = "[{\"Key\":\"k\"}]"   -> [type |-> "list", empty |-> FALSE]
          [] d = "[\"sg-1\"]"          -> [type |-> "list", empty |-> FALSE]
          [] d = "[]"                  -> [type |-> "list", empty |-> TRUE] ]

Malformed == "{not-json"

\* json.loads(s) returns a value (otherwise it raises JSONDecodeError)
JsonDecodes(s) == s \in DOMAIN JsonValue

\* Python truthiness of an optional string argument
Truthy(s) == s # None /\ s # ""

\* `json.loads(x) if x else None` raises JSONDecodeError
LoadFails(s) == Truthy(s) /\ ~JsonDecodes(s)

ArgSpace ==
    [ task_identifier     : {"migrate-orders"},
      instance_arn        : {None, SuppliedInstanceArn},
      vpc_security_groups : {None, "", "[\"sg-1\"]", Malformed},
      subnet_group        : {None, "", "subnet-grp"},
      table_mappings      : {"{\"rules\":[]}", Malformed},
      task_settings       : {None, "{\"Logging\":{}}", Malformed},
      tags                : {None, "[{\"Key\":\"k\"}]", Malformed} ]

\* the date on which the run begins (a midnight may follow, see Midnight)
Dates == { [y |-> 2024, m |-> 12, d |-> 31] }

\* error: the exception's class, its message, and the flag the message names
NoError == [kind |-> "none", msg |-> "", field |-> "none"]

Init ==
    /\ args \in ArgSpace
    /\ pc = "parse_arguments"
    /\ now = 0
    /\ today \in Dates
    /\ rollovers = 0
    /\ task_identifier = None
    /\ instance_arn = None
    /\ task_arn = None
    /\ start_time = 0
    /\ timeout = 0
    /\ polls = 0
    /\ sleeps = 0
    /\ lastStatus = "none"
    /\ firstAvail = 0
    /\ sawEmpty = FALSE
    /\ waitRet = "none"
    /\ wait_arn = None
    /\ calls = << >>
    /\ error = NoError
    /\ exitCode = -1

(***************************************************************************)
(* datetime.now().strftime("%Y%m%d")                                       *)
(***************************************************************************)
IsLeap(y) == (y % 4 = 0 /\ y % 100 # 0) \/ y % 400 = 0

DaysIn(y, m) ==
    IF m = 2 THEN (IF IsLeap(y) THEN 29 ELSE 28)
    ELSE IF m \in {4, 6, 9, 11} THEN 30 ELSE 31

NextDay(dt) ==
    IF dt.d < DaysIn(dt.y, dt.m) THEN [dt EXCEPT !.d = @ + 1]
    ELSE IF dt.m < 12 THEN [dt EXCEPT !.m = @ + 1, !.d = 1]
    ELSE [y |-> dt.y + 1, m |-> 1, d |-> 1]

Digit(n) == <<"0", "1", "2", "3", "4", "5", "6", "7", "8", "9">>[n + 1]

\* Faulty variant: month and day are written without zero padding.
StrftimeUnpadded(dt) ==
    Digit(dt.y \div 1000) \o Digit((dt.y \div 100) % 10)
        \o Digit((dt.y \div 10) % 10) \o Digit(dt.y % 10)
        \o (IF dt.m < 10 THEN Digit(dt.m)
              ELSE Digit(dt.m \div 10) \o Digit(dt.m % 10))
        \o (IF dt.d < 10 THEN Digit(dt.d)
              ELSE Digit(dt.d \div 10) \o Digit(dt.d % 10))

\* %Y: four digits; %m, %d: two digits, zero padded
Strftime(dt) ==
    Digit(dt.y \div 1000) \o Digit((dt.y \div 100) % 10)
        \o Digit((dt.y \div 10) % 10) \o Digit(dt.y % 10)
        \o Digit(dt.m \div 10) \o Digit(dt.m % 10)
        \o Digit(dt.d \div 10) \o Digit(dt.d % 10)

\* f'{args.task_identifier}-{datetime.now().strftime("%Y%m%d")}'
DeriveTaskIdentifier(base, dt) == base \o "-" \o Strftime(dt)

(***************************************************************************)
(* Remote requests.  One record per request handed to the DMS client: the  *)
(* operation, the identifier and ARN it carries, and whether the client    *)
(* returned a response (ok) or raised.                                     *)
(***************************************************************************)
Call(op, name, arn, source_ids, ok) ==
    [op |-> op, name |-> name, arn |-> arn, source_ids |-> source_ids, ok |-> ok]

\* Faulty variant: a failure of start_replication_task is caught and the run
\* goes on to the subscription.
FailSwallowsStart(kind, msg, field, code) ==
    /\ pc' = IF pc = "start_task" THEN "subscribe" ELSE "failed"
    /\ error' = [kind |-> kind, msg |-> msg, field |-> field]
    /\ exitCode' = code

\* Faulty variant: main's handler prints the error and returns normally.
FailExitsZero(kind, msg, field, code) ==
    /\ pc' = "failed"
    /\ error' = [kind |-> kind, msg |-> msg, field |-> field]
    /\ exitCode' = 0

\* Faulty variant: the failed step is attempted again.
FailRetries(kind, msg, field, code) ==
    /\ pc' = pc
    /\ error' = [kind |-> kind, msg |-> msg, field |-> field]
    /\ exitCode' = code

\* The run ends with an uncaught exception (or with parser.error's exit).
Fail(kind, msg, field, code) ==
    /\ pc' = "failed"
    /\ error' = [kind |-> kind, msg |-> msg, field |-> field]
    /\ exitCode' = code

(***************************************************************************)
(* parse_arguments: the two cross-field checks after parser.parse_args().  *)
(* The result is the flag parser.error names, or "none".                   *)
(***************************************************************************)
\* Faulty variant: the --subnet-group check is left out.
CrossFieldErrorNoSubnet(a) ==
    IF (~Truthy(a.instance_arn)) /\ (~Truthy(a.vpc_security_groups))
        THEN "--vpc-security-groups"
    ELSE "none"

\* Faulty variant: the checks forget the `not args.instance_arn` condition.
CrossFieldErrorIgnoresArn(a) ==
    IF ~Truthy(a.vpc_security_groups) THEN "--vpc-security-groups"
    ELSE IF ~Truthy(a.subnet_group) THEN "--subnet-group"
    ELSE "none"

CrossFieldError(a) ==
    IF (~Truthy(a.instance_arn)) /\ (~Truthy(a.vpc_security_groups))
        THEN "--vpc-security-groups"
    ELSE IF (~Truthy(a.instance_arn)) /\ (~Truthy(a.subnet_group))
        THEN "--subnet-group"
    ELSE "none"

ParseArguments ==
    /\ pc = "parse_arguments"
    /\ IF CrossFieldError(args) # "none"
          THEN Fail("SystemExit", CrossFieldError(args) \o " is required if --instance-arn is not provided",
                    CrossFieldError(args), 2)
          ELSE /\ pc' = "parse_json"
               /\ UNCHANGED <<error, exitCode>>
    /\ UNCHANGED <<args, now, today, rollovers, task_identifier, instance_arn,
                   task_arn, start_time, timeout, polls, sleeps, lastStatus,
                   firstAvail, sawEmpty, waitRet, wait_arn, calls>>

(***************************************************************************)
(* main, lines 274-292: derive the task identifier, parse the JSON         *)
(* payloads, then branch on whether an instance ARN was supplied.          *)
(***************************************************************************)
\* Faulty variant: --task-settings is passed on without being parsed.
PayloadErrorSkipsTaskSettings(a) ==
    \/ ~JsonDecodes(a.table_mappings)
    \/ LoadFails(a.tags)
    \/ LoadFails(a.vpc_security_groups)

\* some json.loads of the try block raises JSONDecodeError
PayloadError(a) ==
    \/ ~JsonDecodes(a.table_mappings)
    \/ LoadFails(a.task_settings)
    \/ LoadFails(a.tags)
    \/ LoadFails(a.vpc_security_groups)

\* Faulty variant: an instance is created whether or not one was supplied.
NeedsInstanceAlways(arn) == TRUE

\* `if not instance_arn:`
NeedsInstance(arn) == ~Truthy(arn)

ParsePayloads ==
    /\ pc = "parse_json"
    /\ task_identifier' = DeriveTaskIdentifier(args.task_identifier, today)
    /\ IF PayloadError(args)
          THEN /\ Fail("JSONDecodeError", "Expecting value", "none", 1)
               /\ UNCHANGED instance_arn
          ELSE /\ instance_arn' = args.instance_arn
               /\ pc' = IF NeedsInstance(args.instance_arn)
                           THEN "create_instance" ELSE "create_task"
               /\ UNCHANGED <<error, exitCode>>
    /\ UNCHANGED <<args, now, today, rollovers, task_arn, start_time, timeout,
                   polls, sleeps, lastStatus, firstAvail, sawEmpty, waitRet,
                   wait_arn, calls>>

(***************************************************************************)
(* DMSJobCreator.create_replication_instance, up to the call of the wait.  *)
(***************************************************************************)
\* Faulty variant: the wait is entered even though the create call raised.
CreateInstancePollsAnyway ==
    /\ pc = "create_instance"
    /\ now' = now + CreateLatency
    /\ \E ok \in BOOLEAN :
         calls' = Append(calls, Call("create_replication_instance",
                           task_identifier \o "-instance", None, << >>, ok))
    /\ wait_arn' = CreatedInstanceArn
    /\ start_time' = now'
    /\ timeout' = DefaultTimeout
    /\ pc' = "wait"
    /\ UNCHANGED <<args, today, rollovers, task_identifier, instance_arn,
                   task_arn, polls, sleeps, lastStatus, firstAvail, sawEmpty,
                   waitRet, error, exitCode>>

CreateInstance ==
    /\ pc = "create_instance"
    /\ now' = now + CreateLatency
    /\ \E ok \in BOOLEAN :
         /\ calls' = Append(calls, Call("create_replication_instance",
                              task_identifier \o "-instance", None, << >>, ok))
         /\ IF ok
           THEN /\ wait_arn' = CreatedInstanceArn
                /\ start_time' = now'
                /\ timeout' = DefaultTimeout
                /\ pc' = "wait"
                /\ UNCHANGED <<error, exitCode>>
           ELSE /\ Fail("ClientError", "create_replication_instance", "none", 1)
                /\ UNCHANGED <<wait_arn, start_time, timeout>>
    /\ UNCHANGED <<args, today, rollovers, task_identifier, instance_arn,
                   task_arn, polls, sleeps, lastStatus, firstAvail, sawEmpty,
                   waitRet>>

(***************************************************************************)
(* DMSJobCreator.wait_for_instance_available.                              *)
(***************************************************************************)
\* Faulty variant: `while True:`.
LoopGuardAlways(t, s, limit) == TRUE

\* Faulty variant: `<=` in place of `<`.
LoopGuardInclusive(t, s, limit) == (t - s) <= limit

\* Faulty variant: the loop compares the clock, not the elapsed time.
LoopGuardIgnoresStart(t, s, limit) == t < limit

\* `while (time.time() - start_time) < timeout:`
LoopGuard(t, s, limit) == (t - s) < limit

\* what one describe_replication_instances call can produce: a status of the
\* first listed instance, an empty list, or a ClientError
PollResults == {"creating", "available", "failed", "empty", "ClientError"}

\* Faulty variant: a ClientError of the poll is swallowed and the loop goes on.
PollOutcomeRetriesError(r) ==
    CASE r = "available"   -> "return"
      [] r = "failed"      -> "raise"
      [] OTHER             -> "sleep"

\* Faulty variant: `available` is not recognised and the loop sleeps on.
PollOutcomeMissesAvailable(r) ==
    CASE r = "ClientError" -> "reraise"
      [] r = "failed"      -> "raise"
      [] OTHER             -> "sleep"

\* Faulty variant: `failed` is not recognised and the loop sleeps on.
PollOutcomeIgnoresFailed(r) ==
    CASE r = "ClientError" -> "reraise"
      [] r = "available"   -> "return"
      [] OTHER             -> "sleep"

\* Faulty variant: any listed instance that has not failed counts as ready.
PollOutcomeCreatingReturns(r) ==
    CASE r = "ClientError" -> "reraise"
      [] r = "empty"       -> "sleep"
      [] r = "failed"      -> "raise"
      [] OTHER             -> "return"

\* lines 82-94: what the loop body does with a poll's result
PollOutcome(r) ==
    CASE r = "ClientError" -> "reraise"
      [] r = "empty"       -> "sleep"
      [] r = "available"   -> "return"
      [] r = "failed"      -> "raise"
      [] OTHER             -> "sleep"

\* Faulty variant: the wait reports its outcome as False.
WaitReturnsFalse == "False"

\* line 86: `return True`
WaitReturnValue == "True"

WaitPoll ==
    /\ pc = "wait"
    /\ LoopGuard(now, start_time, timeout)
    /\ polls < MaxPolls
    /\ polls' = polls + 1
    /\ \E r \in PollResults :
         /\ calls' = Append(calls, Call("describe_replication_instances",
                              None, wait_arn, << >>, r # "ClientError"))
         /\ lastStatus' = r
         /\ firstAvail' = IF r = "available" /\ firstAvail = 0
                             THEN polls' ELSE firstAvail
         /\ sawEmpty' = (sawEmpty \/ r = "empty")
         /\ CASE PollOutcome(r) = "return" ->
                   \* back in create_replication_instance (line 158) and
                   \* then in main (line 306)
                   /\ waitRet' = WaitReturnValue
                   /\ IF waitRet' # "True"
                        THEN /\ Fail("Exception",
                                     "Timeout waiting for replication instance to become available",
                                     "none", 1)
                             /\ UNCHANGED instance_arn
                        ELSE /\ instance_arn' = wait_arn
                             /\ pc' = "create_task"
                             /\ UNCHANGED <<error, exitCode>>
              [] PollOutcome(r) = "raise" ->
                   /\ Fail("Exception", "Instance creation failed with status: failed",
                           "none", 1)
                   /\ UNCHANGED <<waitRet, instance_arn>>
              [] PollOutcome(r) = "reraise" ->
                   /\ Fail("ClientError", "describe_replication_instances", "none", 1)
                   /\ UNCHANGED <<waitRet, instance_arn>>
              [] OTHER ->
                   /\ pc' = "sleep"
                   /\ UNCHANGED <<waitRet, instance_arn, error, exitCode>>
    /\ UNCHANGED <<args, now, today, rollovers, task_identifier, task_arn,
                   start_time, timeout, sleeps, wait_arn>>

\* line 94: time.sleep(30) suspends for at least 30 seconds
Sleep ==
    /\ pc = "sleep"
    /\ \E j \in 0..MaxJitter : now' = now + SleepInterval + j
    /\ sleeps' = sleeps + 1
    /\ pc' = "wait"
    /\ UNCHANGED <<args, today, rollovers, task_identifier, instance_arn,
                   task_arn, start_time, timeout, polls, lastStatus, firstAvail,
                   sawEmpty, waitRet, wait_arn, calls, error, exitCode>>

\* line 101: the loop condition is false
WaitTimeout ==
    /\ pc = "wait"
    /\ ~LoopGuard(now, start_time, timeout)
    /\ Fail("TimeoutError", "Instance did not become available within 900 seconds",
            "none", 1)
    /\ UNCHANGED <<args, now, today, rollovers, task_identifier, instance_arn,
                   task_arn, start_time, timeout, polls, sleeps, lastStatus,
                   firstAvail, sawEmpty, waitRet, wait_arn, calls>>

(***************************************************************************)
(* DMSJobCreator.create_replication_task: the create call, then the        *)
(* replication_task_ready waiter.                                          *)
(***************************************************************************)
\* Faulty variant: the task is given the command line's ARN, not the local.
TaskInstanceArnFromArgs == args.instance_arn

\* line 315: `replication_instance_arn=instance_arn`
TaskInstanceArn == instance_arn

CreateTask ==
    /\ pc = "create_task"
    /\ \E ok \in BOOLEAN :
         /\ calls' = Append(calls, Call("create_replication_task",
                              task_identifier, TaskInstanceArn, << >>, ok))
         /\ IF ok
           THEN /\ task_arn' = CreatedTaskArn
                /\ pc' = "task_wait"
                /\ UNCHANGED <<error, exitCode>>
           ELSE /\ Fail("ClientError", "create_replication_task", "none", 1)
                /\ UNCHANGED task_arn
    /\ UNCHANGED <<args, now, today, rollovers, task_identifier, instance_arn,
                   start_time, timeout, polls, sleeps, lastStatus, firstAvail,
                   sawEmpty, waitRet, wait_arn>>

\* Faulty variant: the response is returned without waiting for readiness.
TaskReadyWaitSkipped ==
    /\ pc = "task_wait"
    /\ pc' = "start_task"
    /\ UNCHANGED <<args, now, today, rollovers, task_identifier, instance_arn,
                   task_arn, start_time, timeout, polls, sleeps, lastStatus,
                   firstAvail, sawEmpty, waitRet, wait_arn, calls, error,
                   exitCode>>

TaskReadyWait ==
    /\ pc = "task_wait"
    /\ \E ok \in BOOLEAN :
         /\ calls' = Append(calls, Call("replication_task_ready",
                              None, task_arn, << >>, ok))
         /\ IF ok
           THEN /\ pc' = "start_task"
                /\ UNCHANGED <<error, exitCode>>
           ELSE Fail("WaiterError", "replication_task_ready", "none", 1)
    /\ UNCHANGED <<args, now, today, rollovers, task_identifier, instance_arn,
                   task_arn, start_time, timeout, polls, sleeps, lastStatus,
                   firstAvail, sawEmpty, waitRet, wait_arn>>

(***************************************************************************)
(* main, lines 323-338: start the task, then create the subscription.      *)
(***************************************************************************)
\* line 326: task_response['ReplicationTask']['ReplicationTaskArn']
StartTaskArn == task_arn

\* Faulty variant: after starting the task the run waits on it again.
StartTaskThenWaits ==
    /\ pc = "start_task"
    /\ \E ok \in BOOLEAN :
         /\ calls' = Append(calls, Call("start_replication_task",
                              None, task_arn, << >>, ok))
         /\ IF ok
           THEN /\ pc' = "task_wait"
                /\ UNCHANGED <<error, exitCode>>
           ELSE Fail("ClientError", "start_replication_task", "none", 1)
    /\ UNCHANGED <<args, now, today, rollovers, task_identifier, instance_arn,
                   task_arn, start_time, timeout, polls, sleeps, lastStatus,
                   firstAvail, sawEmpty, waitRet, wait_arn>>

StartTask ==
    /\ pc = "start_task"
    /\ \E ok \in BOOLEAN :
         /\ calls' = Append(calls, Call("start_replication_task",
                              None, StartTaskArn, << >>, ok))
         /\ IF ok
           THEN /\ pc' = "subscribe"
                /\ UNCHANGED <<error, exitCode>>
           ELSE Fail("ClientError", "start_replication_task", "none", 1)
    /\ UNCHANGED <<args, now, today, rollovers, task_identifier, instance_arn,
                   task_arn, start_time, timeout, polls, sleeps, lastStatus,
                   firstAvail, sawEmpty, waitRet, wait_arn>>

CreateSubscription ==
    /\ pc = "subscribe"
    /\ \E ok \in BOOLEAN :
         /\ calls' = Append(calls, Call("create_event_subscription",
                              task_identifier \o "-subscription", None,
                              <<task_identifier>>, ok))
         /\ IF ok
           THEN /\ pc' = "done"
                /\ exitCode' = 0
                /\ UNCHANGED error
           ELSE Fail("ClientError", "create_event_subscription", "none", 1)
    /\ UNCHANGED <<args, now, today, rollovers, task_identifier, instance_arn,
                   task_arn, start_time, timeout, polls, sleeps, lastStatus,
                   firstAvail, sawEmpty, waitRet, wait_arn>>

(***************************************************************************)
(* The calendar date changes while the run is in progress.                 *)
(***************************************************************************)
Midnight ==
    /\ pc \notin {"done", "failed"}
    /\ rollovers < MaxRollover
    /\ today' = NextDay(today)
    /\ rollovers' = rollovers + 1
    /\ UNCHANGED <<args, pc, now, task_identifier, instance_arn, task_arn,
                   start_time, timeout, polls, sleeps, lastStatus, firstAvail,
                   sawEmpty, waitRet, wait_arn, calls, error, exitCode>>

Next ==
    \/ ParseArguments
    \/ ParsePayloads
    \/ CreateInstance
    \/ WaitPoll
    \/ Sleep
    \/ WaitTimeout
    \/ CreateTask
    \/ TaskReadyWait
    \/ StartTask
    \/ CreateSubscription
    \/ Midnight

Spec == Init /\ [][Next]_vars

(***************************************************************************)
(* wait_for_instance_available on its own: the wait is entered as          *)
(* create_replication_instance enters it, but with any timeout its caller  *)
(* may pass.  The interpreter keeps executing the loop, and time.sleep     *)
(* returns: the loop's steps are weakly fair.                              *)
(***************************************************************************)
TimeoutSpace ==
    {(k * SleepInterval) \div 2 : k \in -2..MaxTimeoutHalves} \cup {DefaultTimeout}

InitWait ==
    /\ args \in {a \in ArgSpace : /\ CrossFieldError(a) = "none"
                                  /\ ~PayloadError(a)
                                  /\ NeedsInstance(a.instance_arn)
                                  /\ a.task_settings = None
                                  /\ a.tags = None}
    /\ pc = "wait"
    /\ now = CreateLatency
    /\ today \in Dates
    /\ rollovers = 0
    /\ task_identifier = DeriveTaskIdentifier(args.task_identifier, today)
    /\ instance_arn = args.instance_arn
    /\ task_arn = None
    /\ start_time = now
    /\ timeout \in TimeoutSpace
    /\ polls = 0
    /\ sleeps = 0
    /\ lastStatus = "none"
    /\ firstAvail = 0
    /\ sawEmpty = FALSE
    /\ waitRet = "none"
    /\ wait_arn = CreatedInstanceArn
    /\ calls = << Call("create_replication_instance",
                       task_identifier \o "-instance", None, << >>, TRUE) >>
    /\ error = NoError
    /\ exitCode = -1

NextWait ==
    \/ WaitPoll
    \/ Sleep
    \/ WaitTimeout

WaitSpec == InitWait /\ [][NextWait]_vars /\ WF_vars(NextWait)

(***************************************************************************)
(* Vocabulary of the properties.                                           *)
(***************************************************************************)
Last(s) == s[Len(s)]

IsPrefix(s, t) == Len(s) <= Len(t) /\ \A i \in 1..Len(s) : s[i] = t[i]

\* the five remote operations, in the order issued (the readiness waiter,
\* a blocking wait of the client, is not one of them)
RemoteOps ==
    LET issued == SelectSeq(calls, LAMBDA c : c.op # "replication_task_ready")
    IN  [i \in 1..Len(issued) |-> issued[i].op]

Issued(op) == \E i \in 1..Len(calls) : calls[i].op = op

\* an optional command-line value is absent (not given, or given empty)
Missing(x) == x = None \/ x = ""

InstanceSupplied == ~Missing(args.instance_arn)

\* parse_arguments ended the run through parser.error
ValidationFailed == pc = "failed" /\ error.kind = "SystemExit"

WaitStarted == wait_arn # None

Elapsed == now - start_time

C2_ValidationWithoutInstance ==
    (~InstanceSupplied /\ pc # "parse_arguments") =>
        /\ ValidationFailed <=>
              (Missing(args.vpc_security_groups) \/ Missing(args.subnet_group))
        /\ ValidationFailed => calls = << >>

C2_Witness ==
    /\ ~InstanceSupplied
    /\ ~Missing(args.vpc_security_groups)
    /\ Missing(args.subnet_group)
    /\ ValidationFailed
    /\ error.field = "--subnet-group"

(***************************************************************************)
(* C3.  With an instance reference supplied, validation never fails,       *)
(* whatever the security-group list and subnet group are, and the run's    *)
(* first remote step is task creation.                                     *)
(***************************************************************************)
C3_ValidationWithInstance ==
    (InstanceSupplied /\ pc # "parse_arguments") =>
        /\ ~ValidationFailed
        /\ (pc # "parse_json" /\ ~PayloadError(args)) =>
              IF calls = << >> THEN pc = "create_task"
              ELSE calls[1].op = "create_replication_task"

C3_Witness ==
    /\ InstanceSupplied
    /\ Missing(args.vpc_security_groups)
    /\ Missing(args.subnet_group)
    /\ calls # << >>
    /\ calls[1].op = "create_replication_task"

(***************************************************************************)
(* C4.  The wait returns True exactly at the first poll that reports       *)
(* available: after k-1 polls that reported no terminal status and a k-th  *)
(* that reported available it has made k polls and k-1 sleeps, and at      *)
(* least (k-1) x 30 seconds have elapsed.                                  *)
(***************************************************************************)
C4_PollUntilReadySuccess ==
    /\ firstAvail # 0 => waitRet = "True"
    /\ waitRet = "True" =>
          /\ lastStatus = "available"
          /\ polls = firstAvail
          /\ sleeps = polls - 1
          /\ Elapsed >= (polls - 1) * SleepInterval
    /\ pc = "sleep" => lastStatus \in {"creating", "empty"}

\* the status sequence creating, creating, available
C4_Witness ==
    /\ waitRet = "True"
    /\ polls = 3
    /\ ~sawEmpty
    /\ sleeps = 2
    /\ Elapsed >= 2 * SleepInterval

(***************************************************************************)
(* C5.  A poll that reports failed ends the wait at once with the          *)
(* exception of line 89, which is not a TimeoutError: that poll is the     *)
(* last remote call of the run, no sleep follows it, and the timeout has   *)
(* not elapsed.                                                            *)
(***************************************************************************)
C5_PollUntilReadyFailure ==
    lastStatus = "failed" =>
        /\ pc = "failed"
        /\ error.kind = "Exception"
        /\ error.kind # "TimeoutError"
        /\ error.msg = "Instance creation failed with status: failed"
        /\ Last(calls).op = "describe_replication_instances"
        /\ Len(SelectSeq(calls,
                 LAMBDA c : c.op = "describe_replication_instances")) = polls
        /\ sleeps = polls - 1
        /\ Elapsed < timeout
        /\ waitRet = "none"

C5_Witness ==
    /\ lastStatus = "failed"
    /\ pc = "failed"
    /\ polls = 2
    /\ Elapsed < timeout - SleepInterval

(***************************************************************************)
(* C6.  A wait whose polls never report available or failed (and never     *)
(* raise) can only end with TimeoutError; TimeoutError is raised only once *)
(* the time elapsed since the wait began has reached the timeout, and      *)
(* while less has elapsed the loop is still polling and sleeping.          *)
(***************************************************************************)
C6_PollUntilReadyTimeout ==
    /\ (WaitStarted /\ pc = "failed" /\ lastStatus \in {"none", "creating", "empty"})
          => error.kind = "TimeoutError"
    /\ error.kind = "TimeoutError" =>
          /\ pc = "failed"
          /\ Elapsed >= timeout
          /\ lastStatus \in {"none", "creating", "empty"}
          /\ waitRet = "none"
    /\ pc = "sleep" => Elapsed < timeout
    /\ polls > 0 => (polls - 1) * SleepInterval < timeout

C6_Witness ==
    /\ error.kind = "TimeoutError"
    /\ Elapsed >= DefaultTimeout
    /\ polls * SleepInterval = DefaultTimeout

ForwardOps ==
    {"create_replication_instance", "describe_replication_instances",
     "create_replication_task", "replication_task_ready",
     "start_replication_task", "create_event_subscription"}

C8_FailureAbortsRun ==
    /\ (error.kind # "none") <=> (pc = "failed")
    /\ \A i \in 1..Len(calls) :
          /\ calls[i].op \in ForwardOps
          /\ ~calls[i].ok => (i = Len(calls) /\ pc = "failed")
    /\ pc = "failed" =>
          CASE error.kind \in {"SystemExit", "JSONDecodeError"} ->
                 calls = << >>
            [] error.kind \in {"ClientError", "WaiterError"} ->
                 /\ Last(calls).op = error.msg
                 /\ ~Last(calls).ok
            [] error.kind \in {"Exception", "TimeoutError"} ->
                 /\ Last(calls).op = "describe_replication_instances"
                 /\ Last(calls).ok
                 /\ ~Issued("create_replication_task")
            [] OTHER -> FALSE

\* the task was created and made ready, then start-task failed
C8_Witness ==
    /\ pc = "failed"
    /\ Len(calls) >= 3
    /\ Last(calls).op = "start_replication_task"
    /\ ~Last(calls).ok
    /\ Issued("create_replication_instance")

(***************************************************************************)
(* C9.  Every create-task request carries an instance ARN that was given   *)
(* on the command line or returned by an earlier, successful               *)
(* create-instance call of this run; start-task and create-subscription    *)
(* are issued only after a create-task call returned, and start-task       *)
(* carries the ARN that call returned.                                     *)
(***************************************************************************)
C9_ArnsExistBeforeUse ==
    \A i \in 1..Len(calls) :
        /\ calls[i].op = "create_replication_task" =>
              /\ ~Missing(calls[i].arn)
              /\ \/ (InstanceSupplied /\ calls[i].arn = args.instance_arn)
                 \/ (/\ calls[i].arn = CreatedInstanceArn
                     /\ \E j \in 1..(i - 1) :
                           /\ calls[j].op = "create_replication_instance"
                           /\ calls[j].ok)
        /\ calls[i].op \in {"start_replication_task", "create_event_subscription"} =>
              \E j \in 1..(i - 1) :
                  /\ calls[j].op = "create_replication_task"
                  /\ calls[j].ok
        /\ calls[i].op = "start_replication_task" =>
              calls[i].arn = CreatedTaskArn

C9_Witness ==
    /\ pc = "done"
    /\ ~InstanceSupplied
    /\ \E i \in 1..Len(calls) :
          /\ calls[i].op = "create_replication_task"
          /\ calls[i].arn = CreatedInstanceArn

(***************************************************************************)
(* C10.  The instance provisioner hands control back to main only after a  *)
(* poll reported available: in a run that creates its instance, task       *)
(* creation is reached only if the latest poll reported available, and a   *)
(* provisioner that ended in any other way ended the run in Failed.        *)
(***************************************************************************)
C10_InstanceAvailableBeforeTask ==
    Issued("create_replication_instance") =>
        /\ (pc = "create_task" \/ Issued("create_replication_task")) =>
              /\ firstAvail # 0
              /\ lastStatus = "available"
              /\ waitRet = "True"
              /\ instance_arn = CreatedInstanceArn
        /\ (pc \notin {"wait", "sleep"} /\ lastStatus # "available") =>
              (pc = "failed" /\ ~Issued("create_replication_task"))

C10_Witness ==
    /\ Issued("create_replication_instance")
    /\ Issued("create_replication_task")
    /\ polls >= 2
    /\ lastStatus = "available"

(***************************************************************************)
(* C11.  start-task is issued only right after the replication_task_ready  *)
(* wait on the created task returned, itself right after create-task       *)
(* returned, and the subscription only after start-task returned; a run whose create-task raised (ClientError) or whose *)
(* readiness wait raised (WaiterError) never issues start-task or          *)
(* create-subscription.                                                    *)
(***************************************************************************)
C11_StartOnlyAfterTaskReady ==
    /\ \A i \in 1..Len(calls) :
          /\ calls[i].op = "start_replication_task" =>
                /\ i > 2
                /\ calls[i - 2].op = "create_replication_task" /\ calls[i - 2].ok
                /\ calls[i - 1].op = "replication_task_ready" /\ calls[i - 1].ok
                /\ calls[i - 1].arn = CreatedTaskArn
          /\ calls[i].op = "create_event_subscription" =>
                /\ i > 3
                /\ calls[i - 1].op = "start_replication_task" /\ calls[i - 1].ok
    /\ (\E i \in 1..Len(calls) :
            /\ calls[i].op \in {"create_replication_task", "replication_task_ready"}
            /\ ~calls[i].ok) =>
          /\ pc = "failed"
          /\ error.kind = (IF Last(calls).op = "replication_task_ready"
                             THEN "WaiterError" ELSE "ClientError")
          /\ ~Issued("start_replication_task")
          /\ ~Issued("create_event_subscription")

\* the task was created, its readiness wait timed out
C11_Witness ==
    /\ pc = "failed"
    /\ error.kind = "WaiterError"
    /\ Last(calls).op = "replication_task_ready"
    /\ \E i \in 1..Len(calls) :
          calls[i].op = "create_replication_task" /\ calls[i].ok

MutatingOps ==
    {"create_replication_instance", "create_replication_task",
     "start_replication_task", "create_event_subscription"}

TimesIssued(op) == Cardinality({i \in 1..Len(calls) : calls[i].op = op})

C13_NoRetry ==
    /\ \A op \in MutatingOps : TimesIssued(op) <= 1
    /\ \A i \in 1..Len(calls) : ~calls[i].ok => i = Len(calls)
    /\ (~InstanceSupplied /\ pc \notin {"parse_arguments", "parse_json",
                                         "create_instance", "failed"}) =>
          TimesIssued("create_replication_instance") = 1
    /\ WaitStarted => TimesIssued("create_replication_instance") = 1

\* create-task raised in a run that provisioned its instance
C13_Witness ==
    /\ pc = "failed"
    /\ calls # << >>
    /\ Last(calls).op = "create_replication_task"
    /\ ~Last(calls).ok
    /\ TimesIssued("create_replication_instance") = 1
    /\ TimesIssued("create_replication_task") = 1

(***************************************************************************)
(* C14.  The step that derives the task identifier sets it to              *)
(* base-YYYYMMDD for the date of that moment; once set it never changes,   *)
(* whatever the calendar does afterwards, and every request that names the *)
(* task uses it: create-instance as <id>-instance, create-task as <id>,    *)
(* create-subscription as <id>-subscription with <id> as its only source   *)
(* identifier.                                                             *)
(***************************************************************************)
\* the dates a run can see, written as YYYYMMDD
ExpectedStamp(dt) ==
    CASE dt = [y |-> 2024, m |-> 12, d |-> 31] -> "20241231"
      [] dt = [y |-> 2025, m |-> 1, d |-> 1]   -> "20250101"
      [] dt = [y |-> 2025, m |-> 1, d |-> 2]   -> "20250102"
      [] dt = [y |-> 2025, m |-> 1, d |-> 3]   -> "20250103"
      [] OTHER                                 -> "unexpected date"

NamesTask(c, id) ==
    CASE c.op = "create_replication_instance" -> c.name = id \o "-instance"
      [] c.op = "create_replication_task"     -> c.name = id
      [] c.op = "create_event_subscription"   ->
             /\ c.name = id \o "-subscription"
             /\ c.source_ids = <<id>>
      [] OTHER -> TRUE

C14_TaskIdentifierDerivedOnce ==
    [][ /\ (pc = "parse_json" /\ pc' # "parse_json") =>
              task_identifier' = args.task_identifier \o "-" \o ExpectedStamp(today)
        /\ task_identifier # None => task_identifier' = task_identifier
        /\ \A i \in 1..Len(calls') : NamesTask(calls'[i], task_identifier')
      ]_vars

\* midnight passed after the identifier was derived
C14_Witness ==
    /\ pc = "done"
    /\ ~InstanceSupplied
    /\ today = [y |-> 2025, m |-> 1, d |-> 1]
    /\ task_identifier = "migrate-orders-20241231"
    /\ calls[1].name = "migrate-orders-20241231-instance"
    /\ Last(calls).source_ids = <<"migrate-orders-20241231">>

(***************************************************************************)
(* C15.  Every wait ends: whatever the polls report (an empty list         *)
(* included) and whatever the timeout, the loop is eventually left, by     *)
(* returning or by raising.                                                *)
(***************************************************************************)
C15_WaitTerminates == <>(pc \notin {"wait", "sleep"})

\* every poll listed no instance, and the wait timed out
C15_Witness ==
    /\ pc = "failed"
    /\ error.kind = "TimeoutError"
    /\ lastStatus = "empty"
    /\ sawEmpty
    /\ polls >= 2

(***************************************************************************)
(* C16.  A poll that raises ClientError ends the wait there and then: the  *)
(* error is the run's error, that poll is the last remote call, the only   *)
(* one that raised, no sleep follows it whatever remains of the timeout,   *)
(* and create-task is never issued.                                        *)
(***************************************************************************)
C16_PollErrorNotRetried ==
    (\E i \in 1..Len(calls) :
        calls[i].op = "describe_replication_instances" /\ ~calls[i].ok) =>
        /\ pc = "failed"
        /\ error.kind = "ClientError"
        /\ error.msg = "describe_replication_instances"
        /\ lastStatus = "ClientError"
        /\ Last(calls).op = "describe_replication_instances"
        /\ \A i \in 1..Len(calls) : ~calls[i].ok => i = Len(calls)
        /\ TimesIssued("describe_replication_instances") = polls
        /\ sleeps = polls - 1
        /\ waitRet = "none"
        /\ ~Issued("create_replication_task")

\* the second poll raises, with most of the timeout left
C16_Witness ==
    /\ lastStatus = "ClientError"
    /\ pc = "failed"
    /\ polls = 2
    /\ Elapsed < timeout - SleepInterval

(***************************************************************************)
(* C17.  A run whose create-instance call raised never polls: it has       *)
(* failed with that ClientError and no describe-instance call is issued.   *)
(***************************************************************************)
C17_NoPollAfterFailedCreate ==
    (\E i \in 1..Len(calls) :
        calls[i].op = "create_replication_instance" /\ ~calls[i].ok) =>
        /\ pc = "failed"
        /\ error.kind = "ClientError"
        /\ error.msg = "create_replication_instance"
        /\ ~Issued("describe_replication_instances")
        /\ polls = 0
        /\ sleeps = 0
        /\ ~WaitStarted

C17_Witness ==
    /\ pc = "failed"
    /\ calls # << >>
    /\ Last(calls).op = "create_replication_instance"
    /\ ~Last(calls).ok

(***************************************************************************)
(* C18.  Nothing but one create-subscription can follow start-task: no     *)
(* describe call and no waiter is issued after it.  The describe-instance  *)
(* polls form one block right after create-instance, the run's first call, *)
(* and so come before create-task.                                         *)
(***************************************************************************)
C18_FireAndForgetStart ==
    \A i \in 1..Len(calls) :
        /\ calls[i].op = "start_replication_task" =>
              /\ Len(calls) <= i + 1
              /\ Len(calls) = i + 1 =>
                    calls[i + 1].op = "create_event_subscription"
        /\ calls[i].op = "describe_replication_instances" =>
              /\ i > 1
              /\ calls[1].op = "create_replication_instance"
              /\ calls[i - 1].op \in {"create_replication_instance",
                                      "describe_replication_instances"}
        /\ calls[i].op = "create_replication_instance" => i = 1

C18_Witness ==
    /\ pc = "done"
    /\ polls >= 2
    /\ Len(calls) = polls + 5
    /\ calls[Len(calls) - 1].op = "start_replication_task"

(***************************************************************************)
(* C19.  The wait returns True or raises: it never returns False, so the   *)
(* `Timeout waiting for replication instance` exception of line 159 is     *)
(* never raised.  A wait that has ended without returning True has ended   *)
(* the run with the failed-status exception, a ClientError of the poll or  *)
(* TimeoutError.                                                           *)
(***************************************************************************)
C19_WaitNeverReturnsFalse ==
    /\ waitRet \in {"none", "True"}
    /\ error.msg # "Timeout waiting for replication instance to become available"
    /\ (WaitStarted /\ pc \notin {"wait", "sleep"} /\ waitRet # "True") =>
          /\ pc = "failed"
          /\ waitRet = "none"
          /\ \/ (error.kind = "Exception" /\ lastStatus = "failed")
             \/ (error.kind = "ClientError" /\ lastStatus = "ClientError")
             \/ error.kind = "TimeoutError"

\* the timeout, the one outcome a bool result could have reported as False
C19_Witness ==
    /\ WaitStarted
    /\ pc = "failed"
    /\ error.kind = "TimeoutError"
    /\ waitRet = "none"
    /\ polls > 0

(***************************************************************************)
(* C20.  The timeout is tested only at the head of an iteration.  A poll   *)
(* is issued only from the loop head with less than the timeout elapsed;   *)
(* at the head with the timeout elapsed the wait raises TimeoutError       *)
(* without polling (so a timeout <= 0 gives no poll at all, and an         *)
(* instance that became available during the last sleep is not seen); a    *)
(* sleep is always followed by the head test; and a wait makes at most     *)
(* ceil(timeout / 30) polls.                                               *)
(***************************************************************************)
CeilDiv(a, b) == (a + b - 1) \div b

C20_TimeoutCheckedAtLoopHead ==
    [][ /\ polls' # polls =>
              (polls' = polls + 1 /\ pc = "wait" /\ Elapsed < timeout)
        /\ (pc = "wait" /\ Elapsed >= timeout) =>
              /\ polls' = polls
              /\ calls' = calls
              /\ pc' = "failed"
              /\ error'.kind = "TimeoutError"
        /\ pc = "sleep" => (pc' = "wait" /\ polls' = polls /\ calls' = calls)
        /\ timeout' <= 0 => polls' = 0
        /\ timeout' > 0 => polls' <= CeilDiv(timeout', SleepInterval)
      ]_vars

\* the last sleep crossed the timeout: ceil(timeout / 30) polls, then the error
C20_Witness ==
    /\ pc = "failed"
    /\ error.kind = "TimeoutError"
    /\ timeout > 0
    /\ timeout % SleepInterval # 0
    /\ polls = CeilDiv(timeout, SleepInterval)
    /\ polls >= 2
    /\ lastStatus = "creating"

====
